---- MODULE Spec2Model ----
(***************************************************************************)
(* Model of the gl-matrix.d.ts generator (generator.ts, version 1.1.0):    *)
(* the type mapping (convertType), the extraction of signatures from the   *)
(* matches of the method pattern (parseKlass), the two-pass signature      *)
(* registry (signatureDB) and the renderer (ToString).                     *)
(*                                                                         *)
(* JavaScript strings are TLA+ strings; the value undefined is the string  *)
(* `undefined`, which no captured group can equal (a group never contains  *)
(* the character "<" followed by "undefined>").  A thrown TypeError is the *)
(* value `TypeError`.                                                      *)
(***************************************************************************)
EXTENDS Integers, Sequences, FiniteSets

VARIABLES
  STRICTLY_TYPED,   \* --strictly-typed
  ENABLE_JAVADOC,   \* not --disable-javadoc
  ARRAY_TYPE,       \* the shared numeric-buffer type
  pc,               \* position of the run
  error,            \* how the run ended when it did not run to completion
  glMatrix,         \* text pieces of the glMatrix interface
  signatureDB,      \* Map<string, MethodMap>, in insertion order
  methodMap,        \* the MethodMap under construction in pass 1
  ki,               \* index of the current class in the class loops
  mi,               \* index of the current key in the pass-2 method loop
  output,           \* text pieces of the class interfaces
  stdout,           \* what console.log has written
  matched,          \* number of matches the patterns have produced
  result,           \* the match parseKlass is working on, <<>> when it has none
  arg,              \* arguments of the convertType call under study
  res               \* results of that call and of the call on its result

vars == <<STRICTLY_TYPED, ENABLE_JAVADOC, ARRAY_TYPE, pc, error, glMatrix,
          signatureDB, methodMap, ki, mi, output, stdout, matched, result,
          arg, res>>

\* the number of matches the patterns produce in one run, over all files
MaxDecls == 3

undefined == "<undefined>"
TypeError == "<TypeError>"

\* the messages of the TypeErrors a run can end with
NoFromType == "TypeError: Cannot read property '0' of undefined"
NoTarget == "TypeError: Cannot read property of undefined (alias target)"

-----------------------------------------------------------------------------
(* String primitives of JavaScript used by the generator.                   *)

CharAt(s, i) == SubSeq(s, i, i)

UpperChars == "ABCDEFGHIJKLMNOPQRSTUVWXYZ"
LowerChars == "abcdefghijklmnopqrstuvwxyz"

LowerChar(c) ==
  IF \E i \in 1..Len(UpperChars) : CharAt(UpperChars, i) = c
    THEN CharAt(LowerChars, CHOOSE i \in 1..Len(UpperChars) : CharAt(UpperChars, i) = c)
    ELSE c

RECURSIVE toLowerCase(_)
toLowerCase(s) ==
  IF Len(s) = 0 THEN "" ELSE LowerChar(CharAt(s, 1)) \o toLowerCase(SubSeq(s, 2, Len(s)))

\* s.indexOf(sub) >= 0
Contains(s, sub) ==
  \E i \in 1..(Len(s) - Len(sub) + 1) : SubSeq(s, i, i + Len(sub) - 1) = sub

\* the WhiteSpace and LineTerminator characters String.prototype.trim removes
\* and \s matches: tab, line feed, vertical tab, form feed, carriage return,
\* space, no-break space, U+1680 and U+FEFF; the other space separators
\* (U+2000-U+200A, U+2028, U+2029, U+202F, U+205F, U+3000) cannot be written
\* in a string of this module, so no string of the model holds one
IsSpace(c) == c \in {" ", "\t", "\n", "\f", "\r", "", " ", " ", "﻿"}

RECURSIVE trimLeft(_)
trimLeft(s) ==
  IF Len(s) > 0 /\ IsSpace(CharAt(s, 1)) THEN trimLeft(SubSeq(s, 2, Len(s))) ELSE s

RECURSIVE trimRight(_)
trimRight(s) ==
  IF Len(s) > 0 /\ IsSpace(CharAt(s, Len(s))) THEN trimRight(SubSeq(s, 1, Len(s) - 1)) ELSE s

trim(s) == trimRight(trimLeft(s))

\* s.split(","): the pieces between the commas, at least one piece
RECURSIVE splitComma(_)
splitComma(s) ==
  IF \E i \in 1..Len(s) : CharAt(s, i) = ","
    THEN LET i == CHOOSE j \in 1..Len(s) :
                    CharAt(s, j) = "," /\ \A k \in 1..(j - 1) : CharAt(s, k) # ","
         IN  <<SubSeq(s, 1, i - 1)>> \o splitComma(SubSeq(s, i + 1, Len(s)))
    ELSE <<s>>

\* list.indexOf(x) >= 0
InList(list, x) == \E i \in 1..Len(list) : list[i] = x

\* String(x)
String(x) == IF x = undefined THEN "undefined" ELSE x

-----------------------------------------------------------------------------
(* Type mapping.                                                            *)

klasses == <<"vec2", "vec3", "vec4", "mat2", "mat2d", "mat3", "mat4", "quat">>

javadocTypes == <<"number", "Number", "String", "quat4", "Function", "Object",
                  "Array", "Type", "Boolean">>

validTypes == klasses \o javadocTypes

\* the value of the local `klass` after the loose-mode substitution
convertKlass(klass) ==
  IF ~STRICTLY_TYPED /\ InList(klasses, klass) THEN ARRAY_TYPE ELSE klass

\* convertBase without the case "quat4" of the switch
convertBase_noQuat4(fromType, klass) ==
  IF InList(validTypes, fromType)
    THEN CASE fromType = "Array" -> convertKlass(klass)
           [] fromType = "Function" ->
                "(a: " \o convertKlass(klass) \o ", b: " \o convertKlass(klass)
                  \o ", arg: T) => void"
           [] fromType \in {"Object", "Type"} -> "T"
           [] OTHER -> toLowerCase(fromType)
    ELSE IF Len(fromType) > 0
              /\ CharAt(fromType, 1) = "{" /\ CharAt(fromType, Len(fromType)) = "}"
           THEN fromType
           ELSE "void"

\* convertBase with the default case keeping the source type as written
convertBase_noLower(fromType, klass) ==
  IF InList(validTypes, fromType)
    THEN CASE fromType = "quat4" -> "quat"
           [] fromType = "Array" -> convertKlass(klass)
           [] fromType = "Function" ->
                "(a: " \o convertKlass(klass) \o ", b: " \o convertKlass(klass)
                  \o ", arg: T) => void"
           [] fromType \in {"Object", "Type"} -> "T"
           [] OTHER -> fromType
    ELSE IF Len(fromType) > 0
              /\ CharAt(fromType, 1) = "{" /\ CharAt(fromType, Len(fromType)) = "}"
           THEN fromType
           ELSE "void"

\* the value of `toType` after the switch and the structural branch
convertBase(fromType, klass) ==
  IF InList(validTypes, fromType)
    THEN CASE fromType = "quat4" -> "quat"
           [] fromType = "Array" -> convertKlass(klass)
           [] fromType = "Function" ->
                "(a: " \o convertKlass(klass) \o ", b: " \o convertKlass(klass)
                  \o ", arg: T) => void"
           [] fromType \in {"Object", "Type"} -> "T"
           [] OTHER -> toLowerCase(fromType)
    ELSE IF Len(fromType) > 0
              /\ CharAt(fromType, 1) = "{" /\ CharAt(fromType, Len(fromType)) = "}"
           THEN fromType
           ELSE "void"

\* convertLoose without the substitution of line 141
convertLoose_kept(toType) == toType

\* the loose-mode substitution applied to `toType`
convertLoose(toType) ==
  IF ~STRICTLY_TYPED /\ InList(klasses, toType) THEN ARRAY_TYPE ELSE toType

\* convertIsArray without the assignment of the case "Array"
convertIsArray_ldu(fromType, method) == method = "LDU"

convertIsArray(fromType, method) ==
  (InList(validTypes, fromType) /\ fromType = "Array") \/ method = "LDU"

\* convertType when the suffix is appended once for "Array" and once for LDU
convertType_twice(fromType, klass, method) ==
  IF fromType = undefined
    THEN TypeError
    ELSE convertLoose(convertBase(fromType, klass))
           \o (IF InList(validTypes, fromType) /\ fromType = "Array" THEN "[]" ELSE "")
           \o (IF method = "LDU" THEN "[]" ELSE "")

convertType(fromType, klass, method) ==
  IF fromType = undefined
    THEN TypeError          \* fromType[0] of undefined
    ELSE LET toType == convertLoose(convertBase(fromType, klass))
         IN  IF convertIsArray(fromType, method) THEN toType \o "[]" ELSE toType

-----------------------------------------------------------------------------
(* Maps in insertion order: a sequence of [key, value] entries with         *)
(* distinct keys.                                                           *)

MapHas(m, k) == \E i \in 1..Len(m) : m[i].key = k

MapGet(m, k) == m[CHOOSE i \in 1..Len(m) : m[i].key = k].value

\* MapSet when an entry is added whether or not the key exists
MapSet_append(m, k, v) == Append(m, [key |-> k, value |-> v])

\* MapSet when an existing key is deleted first and so moves to the end
MapSet_last(m, k, v) ==
  Append(SelectSeq(m, LAMBDA e : e.key # k), [key |-> k, value |-> v])

\* Map.prototype.set: an existing key keeps its position
MapSet(m, k, v) ==
  IF MapHas(m, k)
    THEN [i \in 1..Len(m) |-> IF m[i].key = k THEN [key |-> k, value |-> v] ELSE m[i]]
    ELSE Append(m, [key |-> k, value |-> v])

-----------------------------------------------------------------------------
(* Documentation harvester.  A documentation block is the sequence of its   *)
(* tags; a tag is [tag, type, values]: `tag` is "param", "returns" or       *)
(* "return", `type` the word between the braces and `values` the text after *)
(* "Object ... values: " (undefined when the tag has none).                 *)

\* objAttrs.split(/\s*,\s*/): white space around the commas belongs to the separator
splitAttrs(objAttrs) ==
  LET parts == splitComma(objAttrs)
      n == Len(parts)
  IN  [i \in 1..n |->
         LET l == IF i > 1 THEN trimLeft(parts[i]) ELSE parts[i]
         IN  IF i < n THEN trimRight(l) ELSE l]

RECURSIVE join(_, _)
join(list, sep) ==
  IF Len(list) = 0 THEN ""
  ELSE IF Len(list) = 1 THEN list[1]
  ELSE list[1] \o sep \o join(Tail(list), sep)

\* structuralType with the field names alone
structuralType_bare(objAttrs) ==
  "{" \o join(splitAttrs(objAttrs), ", ") \o "}"

structuralType(objAttrs) ==
  LET attrs == splitAttrs(objAttrs)
  IN  "{" \o join([i \in 1..Len(attrs) |-> attrs[i] \o ": number"], ", ") \o "}"

\* harvest when regexParams matches @param only
RECURSIVE harvest_params(_)
harvest_params(javadoc) ==
  IF Len(javadoc) = 0 THEN <<>>
  ELSE LET t == Head(javadoc)
       IN  IF t.tag = "param"
             THEN <<IF t.values = undefined \/ t.values = ""
                      THEN t.type ELSE structuralType(t.values)>>
                    \o harvest_params(Tail(javadoc))
             ELSE harvest_params(Tail(javadoc))

\* the tags regexParams matches: @param and @returns
RECURSIVE harvest(_)
harvest(javadoc) ==
  IF Len(javadoc) = 0 THEN <<>>
  ELSE LET t == Head(javadoc)
       IN  IF t.tag \in {"param", "returns"}
             THEN <<IF t.values = undefined \/ t.values = ""
                      THEN t.type ELSE structuralType(t.values)>>
                    \o harvest(Tail(javadoc))
             ELSE harvest(Tail(javadoc))

\* firstReturns when regexReturns never matches
firstReturns_none(javadoc) == <<>>

\* regexReturns.exec(javadoc): the first @return or @returns tag, as a
\* sequence of at most one type
RECURSIVE firstReturns(_)
firstReturns(javadoc) ==
  IF Len(javadoc) = 0 THEN <<>>
  ELSE IF Head(javadoc).tag \in {"return", "returns"} THEN <<Head(javadoc).type>>
  ELSE firstReturns(Tail(javadoc))

\* javadocParams[i], counted from 1
at(list, i) == IF i \in 1..Len(list) THEN list[i] ELSE undefined

-----------------------------------------------------------------------------
(* Signature extraction: the body of the loop of parseKlass for one match.  *)
(* A match is the array regex.exec returns:                                 *)
(* <<origStr, javadoc, method, targetKlass, targetMethod, paramStr,         *)
(*   isExistReturn>>.                                                       *)

DBHas(db, klass, method) == MapHas(db, klass) /\ MapHas(MapGet(db, klass), method)

DBGet(db, klass, method) == MapGet(MapGet(db, klass), method)

isAliasOf(match) == match[4] # undefined /\ match[4] # ""

\* the branch of line 284 is taken
readsParams(klass, match) == ~isAliasOf(match) \/ klass # match[4]

\* signatureDB.get(targetKlass).get(targetMethod).params is evaluated on a
\* missing class or method
lookupThrows(klass, match, db) ==
  isAliasOf(match) /\ klass # match[4] /\ ~DBHas(db, match[4], match[5])

arrayParams(klass, match, db) ==
  IF ~isAliasOf(match)
    THEN splitComma(trim(String(match[6])))
    ELSE DBGet(db, match[4], match[5]).params

\* the positions of arrayParams whose entry is not blank
RECURSIVE keptFrom(_, _)
keptFrom(arr, i) ==
  IF i > Len(arr) THEN <<>>
  ELSE IF trim(arr[i]) = "" THEN keptFrom(arr, i + 1)
  ELSE <<i>> \o keptFrom(arr, i + 1)

kept(arr) == keptFrom(arr, 1)

\* a call of convertType in the forEach throws
paramsThrow(klass, match, db) ==
  LET arr == arrayParams(klass, match, db)
      docs == harvest(match[2])
  IN  \E i \in 1..Len(arr) : trim(arr[i]) # "" /\ at(docs, i) = undefined

parseThrows(klass, match, db) ==
  readsParams(klass, match)
    /\ (lookupThrows(klass, match, db) \/ paramsThrow(klass, match, db))

\* the TypeError thrown then
parseError(klass, match, db) ==
  IF lookupThrows(klass, match, db) THEN NoTarget ELSE NoFromType

\* parseParams without the early return of lines 289-291: a blank entry
\* gives a name too
parseParams_blank(klass, match, db) ==
  IF readsParams(klass, match)
    THEN LET arr == arrayParams(klass, match, db)
         IN  [j \in 1..Len(arr) |-> trim(arr[j])]
    ELSE <<>>

parseParams(klass, match, db) ==
  IF readsParams(klass, match)
    THEN LET arr == arrayParams(klass, match, db)
             idx == kept(arr)
         IN  [j \in 1..Len(idx) |-> trim(arr[idx[j]])]
    ELSE <<>>

parseParamTypes(klass, match, db) ==
  IF readsParams(klass, match)
    THEN LET arr == arrayParams(klass, match, db)
             idx == kept(arr)
             docs == harvest(match[2])
         IN  [j \in 1..Len(idx) |-> convertType(at(docs, idx[j]), klass, undefined)]
    ELSE <<>>

\* parseReturnType with returnType initialised to "void" instead of line 275
parseReturnType_void(klass, match, db) ==
  LET method == match[3]
      docs == harvest(match[2])
      ret == firstReturns(match[2])
  IN  IF ~readsParams(klass, match) THEN "void"
      ELSE IF Len(ret) > 0 THEN convertType(ret[1], klass, method)
      ELSE LET arr == arrayParams(klass, match, db)
           IN  IF Len(arr) > 0 /\ trim(arr[1]) # "" /\ match[7] # undefined
                 THEN convertType(at(docs, 1), klass, method)
                 ELSE "void"

\* parseReturnType without the test i === 0 of line 293: every documented
\* parameter sets the return type, the last one last
parseReturnType_last(klass, match, db) ==
  LET method == match[3]
      dflt == convertType(klass, klass, method)
      docs == harvest(match[2])
      ret == firstReturns(match[2])
  IN  IF ~readsParams(klass, match) THEN dflt
      ELSE IF Len(ret) > 0 THEN convertType(ret[1], klass, method)
      ELSE LET arr == arrayParams(klass, match, db)
               idx == kept(arr)
           IN  IF Len(idx) > 0 /\ match[7] # undefined
                 THEN convertType(at(docs, idx[Len(idx)]), klass, method)
                 ELSE dflt

parseReturnType(klass, match, db) ==
  LET method == match[3]
      dflt == convertType(klass, klass, method)
      docs == harvest(match[2])
      ret == firstReturns(match[2])
  IN  IF ~readsParams(klass, match) THEN dflt
      ELSE IF Len(ret) > 0 THEN convertType(ret[1], klass, method)
      ELSE LET arr == arrayParams(klass, match, db)
           IN  IF Len(arr) > 0 /\ trim(arr[1]) # "" /\ match[7] # undefined
                 THEN convertType(at(docs, 1), klass, method)
                 ELSE dflt

\* the record handed to the callback
parseSignature(klass, match, db) ==
  [klass |-> klass,
   javadoc |-> match[2],
   method |-> match[3],
   isAlias |-> isAliasOf(match),
   targetKlass |-> match[4],
   targetMethod |-> match[5],
   params |-> parseParams(klass, match, db),
   paramTypes |-> parseParamTypes(klass, match, db),
   returnType |-> parseReturnType(klass, match, db)]

-----------------------------------------------------------------------------
(* Renderer.                                                                *)

\* incompatible with the case "forEach" left out of the switch
incompatible_noForEach(method) == STRICTLY_TYPED /\ method \in {"set", "length"}

incompatible(method) == STRICTLY_TYPED /\ method \in {"set", "length", "forEach"}

\* selfAlias when the branch of line 186 is never taken
selfAlias_never(signature) == FALSE

\* the branch of line 186 is taken
selfAlias(signature) == signature.isAlias /\ signature.klass = signature.targetKlass

\* targetSig is undefined when its fields are read
ToStringThrows(signature, db) ==
  selfAlias(signature) /\ ~DBHas(db, signature.targetKlass, signature.targetMethod)

\* targetSig when line 196 leaves `signature` as it is
targetSig_own(signature, db) == signature

\* the record `signature` names after line 196
targetSig(signature, db) ==
  IF selfAlias(signature)
    THEN DBGet(db, signature.targetKlass, signature.targetMethod)
    ELSE signature

\* ToStringRecord when the test of line 186 is isAlias alone
ToStringRecord_anyAlias(signature, db) ==
  IF signature.isAlias /\ DBHas(db, signature.targetKlass, signature.targetMethod)
    THEN LET t == DBGet(db, signature.targetKlass, signature.targetMethod)
         IN  [signature EXCEPT !.klass = t.klass, !.method = t.method,
                               !.params = t.params, !.paramTypes = t.paramTypes,
                               !.returnType = t.returnType]
    ELSE signature

\* the record handed to ToString, after lines 191-195 have written to it
ToStringRecord(signature, db) ==
  IF selfAlias(signature)
    THEN LET t == targetSig(signature, db)
         IN  [signature EXCEPT !.klass = t.klass, !.method = t.method,
                               !.params = t.params, !.paramTypes = t.paramTypes,
                               !.returnType = t.returnType]
    ELSE signature

isGeneric(params, paramTypes) ==
  \E i \in 1..Len(params) : at(paramTypes, i) = "T"

strParams(params, paramTypes) ==
  join([i \in 1..Len(params) |-> params[i] \o ": " \o String(at(paramTypes, i))], ", ")

\* ToStringLine with `method` read after line 196 instead of at line 172
ToStringLine_late(signature, db) ==
  LET sig == targetSig(signature, db)
      method == sig.method
  IN  (IF incompatible(method) THEN "  // " ELSE "  ") \o method
        \o (IF isGeneric(sig.params, sig.paramTypes) THEN "<T>" ELSE "")
        \o "(" \o strParams(sig.params, sig.paramTypes) \o "): " \o sig.returnType \o ";"
        \o (IF incompatible(method) THEN " // not Float32Array compatible" ELSE "")

\* the declaration line, without the documentation block and the line end
ToStringLine(signature, db) ==
  LET method == signature.method
      sig == targetSig(signature, db)
  IN  (IF incompatible(method) THEN "  // " ELSE "  ") \o method
        \o (IF isGeneric(sig.params, sig.paramTypes) THEN "<T>" ELSE "")
        \o "(" \o strParams(sig.params, sig.paramTypes) \o "): " \o sig.returnType \o ";"
        \o (IF incompatible(method) THEN " // not Float32Array compatible" ELSE "")

\* the lines of the text of a documentation block, one per entry; an entry
\* without a tag is an empty line, and a tag with a list of values carries a
\* parameter name and the description regexParams (line 252) reads the list from
docLines(javadoc) ==
  <<"/**">>
    \o [i \in 1..Len(javadoc) |->
          IF javadoc[i].tag = "" THEN ""
          ELSE " * @" \o javadoc[i].tag \o " {" \o javadoc[i].type \o "}"
                 \o (IF javadoc[i].values \in {undefined, ""} THEN ""
                     ELSE " o Object with the following values: " \o javadoc[i].values)]
    \o <<" */">>

\* indent when the pattern of line 219 is /^(.*)$/mg
indent_every(lines) == [i \in 1..Len(lines) |-> "  " \o lines[i]]

\* javadoc.replace(/^(.+?)$/mg, "  $1")
indent(lines) ==
  [i \in 1..Len(lines) |-> IF lines[i] = "" THEN "" ELSE "  " \o lines[i]]

\* what ToString returns: the name it declares, the lines of the documentation
\* block (when enabled) and the declaration line
ToString(signature, db) ==
  [kind |-> "decl",
   method |-> signature.method,
   javadoc |-> IF ENABLE_JAVADOC
                 THEN indent(docLines(targetSig(signature, db).javadoc))
                 ELSE <<>>,
   line |-> ToStringLine(signature, db)]

-----------------------------------------------------------------------------
(* The properties of the glMatrix interface (common.js).  A property match  *)
(* is [prop, value, cond]: `cond` holds the two words the conditional       *)
(* pattern of line 359 captures in `value`, and is empty when the pattern   *)
(* does not match.                                                          *)

hasDigitOrDot(value) ==
  \E i \in 1..Len(value) : CharAt(value, i) \in
     {".", "0", "1", "2", "3", "4", "5", "6", "7", "8", "9"}

\* ARRAY_TYPE after the property has been read
propArrayType(p, arrayType) ==
  IF p.value # "Math.random" /\ Len(p.cond) = 2
       /\ Contains(p.cond[1], "Array") /\ Contains(p.cond[2], "Array")
    THEN IF p.cond[1] = "Array" /\ Contains(p.cond[2], "Float") THEN p.cond[2]
         ELSE IF p.cond[2] = "Array" /\ Contains(p.cond[1], "Float") THEN p.cond[1]
         ELSE arrayType
    ELSE arrayType

propValueType(p, arrayType) ==
  IF p.value = "Math.random" THEN "() => number"
  ELSE IF Len(p.cond) = 2
    THEN IF Contains(p.cond[1], "Array") /\ Contains(p.cond[2], "Array")
           THEN propArrayType(p, arrayType) \o " | Array<number>"
           ELSE p.cond[1] \o " | " \o p.cond[2]
  ELSE IF Contains(p.value, "true") \/ Contains(p.value, "false") \/ Contains(p.value, "&&")
    THEN "boolean"
  ELSE IF hasDigitOrDot(p.value) THEN "number"
  ELSE p.value

RECURSIVE propsArrayType(_, _)
propsArrayType(props, arrayType) ==
  IF Len(props) = 0 THEN arrayType
  ELSE propsArrayType(Tail(props), propArrayType(Head(props), arrayType))

RECURSIVE propsLines(_, _)
propsLines(props, arrayType) ==
  IF Len(props) = 0 THEN <<>>
  ELSE <<[kind |-> "prop",
          line |-> "  " \o Head(props).prop \o ": "
                      \o propValueType(Head(props), arrayType) \o ";"]>>
       \o propsLines(Tail(props), propArrayType(Head(props), arrayType))

-----------------------------------------------------------------------------
(* The source tree given to the run: the property assignments of common.js  *)
(* and, for each file, the matches its text may hold.                       *)

param(type) == [tag |-> "param", type |-> type, values |-> undefined]
paramValues(type, values) == [tag |-> "param", type |-> type, values |-> values]
returns(type) == [tag |-> "returns", type |-> type, values |-> undefined]
emptyLine == [tag |-> "", type |-> "", values |-> undefined]

\* <class>.<method> = function (<paramStr>) { ... }
Def(javadoc, method, paramStr, isExistReturn) ==
  <<"", javadoc, method, undefined, undefined, paramStr, isExistReturn>>

\* <class>.<method> = <targetKlass>.<targetMethod>;
Alias(javadoc, method, targetKlass, targetMethod) ==
  <<"", javadoc, method, targetKlass, targetMethod, undefined, undefined>>

arrayTypeProp(then, else) ==
  [prop |-> "ARRAY_TYPE",
   value |-> "(typeof " \o then \o " !== 'undefined') ? " \o then \o " : " \o else,
   cond |-> <<then, else>>]

CommonJs ==
  {<<[prop |-> "EPSILON", value |-> "0.000001", cond |-> <<>>],
     arrayTypeProp("Float32Array", "Array"),
     [prop |-> "RANDOM", value |-> "Math.random", cond |-> <<>>],
     [prop |-> "ENABLE_SIMD", value |-> "false", cond |-> <<>>]>>,
   <<arrayTypeProp("Array", "Float64Array")>>}

Corpus(klass) ==
  CASE klass = "glMatrix" ->
         {Def(<<param("Type")>>, "setMatrixArrayType", "type", undefined),
          Def(<<param("Number")>>, "toRadian", "a", "return")}
    [] klass = "vec2" ->
         {Def(<<param("vec2"), param("vec2"), param("vec2"), returns("vec2")>>,
              "add", "out, a, b", "return"),
          Def(<<param("Number"), param("vec2")>>, "fromAngle", "rad, out", "return"),
          Def(<<param("Array"), param("Function"), param("Object"), returns("Array")>>,
              "forEach", "a, fn, arg", "return")}
    [] klass = "vec3" ->
         {Def(<<param("vec3"), param("Number"), returns("vec3")>>,
              "set", "out,\fx, y", "return"),
          Def(<<param("vec3"), param("vec3")>>, "scale", "out, a, b", undefined),
          Def(<<param("quat4"), param("Float32Array")>>, "normalize", "out, a", undefined)}
    [] klass = "mat2" ->
         {Def(<<param("mat2"), param("mat2"), param("mat2"), param("mat2")>>,
              "LDU", "L, D, U, a", undefined)}
    [] klass = "mat3" ->
         {Def(<<returns("Object")>>, "create", "", "return")}
    [] klass = "mat4" ->
         {Def(<<param("mat4"), param("mat4"), returns("mat4")>>,
              "transpose", "out, a", "return"),
          Def(<<param("mat4"),
                paramValues("Object", "upDegrees, downDegrees, leftDegrees, rightDegrees"),
                param("number"), param("number"), returns("mat4")>>,
              "perspectiveFromFieldOfView", "out, fov, near, far", "return")}
    [] klass = "vec4" ->
         {Def(<<param("vec4"), returns("Number")>>, "length", "a", "return"),
          Alias(<<emptyLine>>, "len", "vec4", "length"),
          Alias(<<returns("vec4")>>, "mag", "vec4", "len")}
    [] klass = "quat" ->
         {Alias(<<param("quat"), returns("Number")>>, "length", "vec4", "length"),
          Def(<<param("quat"), returns("quat")>>, "invert", undefined, undefined),
          Alias(<<param("quat"), returns("Number")>>, "mag", "vec4", "len")}
    [] OTHER -> {}

\* the arguments of the calls of convertType under study
FromTypes ==
  {klasses[i] : i \in 1..Len(klasses)} \cup {javadocTypes[i] : i \in 1..Len(javadocTypes)}
    \cup {"string", "boolean", "void", "T", "Float32Array", "glMatrix",
          "{x: number, y: number}", undefined}

Enclosing == {klasses[i] : i \in 1..Len(klasses)} \cup {"glMatrix"}

Methods == {"LDU", "add", undefined}

-----------------------------------------------------------------------------
(* The run.                                                                 *)

Crash(message) ==
  /\ pc' = "crashed"
  /\ error' = message

\* lines 346-380: the interface header and the property loop
glMatrixProps(files) ==
  /\ pc = "props"
  /\ \E props \in files :
       /\ ARRAY_TYPE' = propsArrayType(props, ARRAY_TYPE)
       /\ glMatrix' = <<[kind |-> "open", klass |-> "glMatrix", extends |-> ""]>>
                        \o propsLines(props, ARRAY_TYPE)
  /\ pc' = "glMatrix"
  /\ UNCHANGED <<STRICTLY_TYPED, ENABLE_JAVADOC, error, signatureDB, methodMap,
                 ki, mi, output, stdout, matched, result, arg, res>>

\* lines 260-261: a match array holds the whole match and the six groups
wellFormed(match) == Len(match) > 5

\* lines 383-385: one match of the glMatrix pattern, rendered at once
glMatrixMatch ==
  /\ pc = "glMatrix"
  /\ matched < MaxDecls
  /\ \E match \in Corpus("glMatrix") :
       /\ result' = match
       /\ IF ~wellFormed(match)
            THEN /\ pc' = "exited" /\ error' = "exit 1"
                 /\ UNCHANGED glMatrix
            ELSE IF parseThrows("glMatrix", match, signatureDB)
              THEN /\ Crash(parseError("glMatrix", match, signatureDB))
                   /\ UNCHANGED glMatrix
              ELSE LET signature == parseSignature("glMatrix", match, signatureDB)
                   IN  IF ToStringThrows(signature, signatureDB)
                         THEN Crash(NoTarget) /\ UNCHANGED glMatrix
                         ELSE /\ glMatrix' =
                                   Append(glMatrix, ToString(signature, signatureDB))
                              /\ UNCHANGED <<pc, error>>
  /\ matched' = matched + 1
  /\ UNCHANGED <<STRICTLY_TYPED, ENABLE_JAVADOC, ARRAY_TYPE, signatureDB, methodMap,
                 ki, mi, output, stdout, arg, res>>

\* line 387, then the start of pass 1
glMatrixEnd ==
  /\ pc = "glMatrix"
  /\ result' = <<>>
  /\ glMatrix' = Append(glMatrix, [kind |-> "close", klass |-> "glMatrix"])
  /\ pc' = "pass1"
  /\ ki' = 1
  /\ methodMap' = <<>>
  /\ UNCHANGED <<STRICTLY_TYPED, ENABLE_JAVADOC, ARRAY_TYPE, error, signatureDB,
                 mi, output, stdout, matched, arg, res>>

\* lines 400-421: one match of the method pattern in the file of klasses[ki]
Pass1Match ==
  /\ pc = "pass1"
  /\ matched < MaxDecls
  /\ \E match \in Corpus(klasses[ki]) :
       /\ result' = match
       /\ IF ~wellFormed(match)
            THEN /\ pc' = "exited" /\ error' = "exit 1"
                 /\ UNCHANGED methodMap
            ELSE IF parseThrows(klasses[ki], match, signatureDB)
              THEN /\ Crash(parseError(klasses[ki], match, signatureDB))
                   /\ UNCHANGED methodMap
              ELSE LET signature == parseSignature(klasses[ki], match, signatureDB)
                   IN  /\ methodMap' = MapSet(methodMap, signature.method, signature)
                       /\ UNCHANGED <<pc, error>>
  /\ matched' = matched + 1
  /\ UNCHANGED <<STRICTLY_TYPED, ENABLE_JAVADOC, ARRAY_TYPE, glMatrix, signatureDB,
                 ki, mi, output, stdout, arg, res>>

\* moreKlasses when the class loop ends after its first class
moreKlasses_none(i) == FALSE

\* line 394: the class loop of pass 1 has a class after the i-th
moreKlasses(i) == i < Len(klasses)

\* line 423 and the step of the class loop; after the last class, pass 2 starts
Pass1End ==
  /\ pc = "pass1"
  /\ result' = <<>>
  /\ signatureDB' = MapSet(signatureDB, klasses[ki], methodMap)
  /\ methodMap' = <<>>
  /\ IF moreKlasses(ki)
       THEN ki' = ki + 1 /\ UNCHANGED <<pc, mi>>
       ELSE pc' = "pass2" /\ ki' = 1 /\ mi' = 0
  /\ UNCHANGED <<STRICTLY_TYPED, ENABLE_JAVADOC, ARRAY_TYPE, error, glMatrix,
                 output, stdout, matched, arg, res>>

\* interfaceExtends when the header of line 438 is written in both modes
interfaceExtends_none == ""

\* lines 435-439: the type the interface header extends, "" when it has no
\* extends clause
interfaceExtends == IF STRICTLY_TYPED THEN ARRAY_TYPE ELSE ""

\* lines 433-443: the interface header of the ki-th class of signatureDB
Pass2Begin ==
  /\ pc = "pass2"
  /\ mi = 0
  /\ output' = Append(output, [kind |-> "open", klass |-> signatureDB[ki].key,
                               extends |-> interfaceExtends])
  /\ mi' = 1
  /\ UNCHANGED <<STRICTLY_TYPED, ENABLE_JAVADOC, ARRAY_TYPE, pc, error, glMatrix,
                 signatureDB, methodMap, ki, stdout, matched, result, arg, res>>

\* lines 446-450: ToString on the mi-th record of the class, which may write
\* to that record
Pass2Render ==
  /\ pc = "pass2"
  /\ mi >= 1
  /\ mi <= Len(signatureDB[ki].value)
  /\ LET signature == signatureDB[ki].value[mi].value
     IN  IF ToStringThrows(signature, signatureDB)
           THEN Crash(NoTarget) /\ UNCHANGED <<output, signatureDB, mi>>
           ELSE /\ output' = Append(output, ToString(signature, signatureDB))
                /\ signatureDB' =
                     [signatureDB EXCEPT ![ki].value[mi].value =
                        ToStringRecord(signature, signatureDB)]
                /\ mi' = mi + 1
                /\ UNCHANGED <<pc, error>>
  /\ UNCHANGED <<STRICTLY_TYPED, ENABLE_JAVADOC, ARRAY_TYPE, glMatrix, methodMap,
                 ki, stdout, matched, result, arg, res>>

\* line 452 and the step of the class loop
Pass2End ==
  /\ pc = "pass2"
  /\ mi > Len(signatureDB[ki].value)
  /\ output' = Append(output, [kind |-> "close", klass |-> signatureDB[ki].key])
  /\ mi' = 0
  /\ IF ki < Len(signatureDB)
       THEN ki' = ki + 1 /\ UNCHANGED pc
       ELSE pc' = "print" /\ UNCHANGED ki
  /\ UNCHANGED <<STRICTLY_TYPED, ENABLE_JAVADOC, ARRAY_TYPE, error, glMatrix,
                 signatureDB, methodMap, stdout, matched, result, arg, res>>

\* consoleLog when the document is written while pass 2 is still running
consoleLog_early ==
  /\ pc \in {"pass2", "print"}
  /\ stdout' = glMatrix \o output
  /\ pc' = "done"
  /\ UNCHANGED <<STRICTLY_TYPED, ENABLE_JAVADOC, ARRAY_TYPE, error, glMatrix,
                 signatureDB, methodMap, ki, mi, output, matched, result, arg, res>>

\* line 455
consoleLog ==
  /\ pc = "print"
  /\ stdout' = glMatrix \o output
  /\ pc' = "done"
  /\ UNCHANGED <<STRICTLY_TYPED, ENABLE_JAVADOC, ARRAY_TYPE, error, glMatrix,
                 signatureDB, methodMap, ki, mi, output, matched, result, arg, res>>

\* one call convertType(fromType, klass, method), as parseKlass makes them once
\* ARRAY_TYPE is settled
Convert(fromTypes, enclosing, methods) ==
  /\ pc = "glMatrix"
  /\ matched = 0
  /\ \E fromType \in fromTypes, klass \in enclosing, method \in methods :
       /\ arg' = <<fromType, klass, method>>
       /\ IF convertType(fromType, klass, method) = TypeError
            THEN Crash(NoFromType) /\ UNCHANGED res
            ELSE /\ res' = <<convertType(fromType, klass, method)>>
                 /\ pc' = "converted"
                 /\ UNCHANGED error
  /\ UNCHANGED <<STRICTLY_TYPED, ENABLE_JAVADOC, ARRAY_TYPE, glMatrix, signatureDB,
                 methodMap, ki, mi, output, stdout, matched, result>>

\* the same call on the type the first call returned
ConvertAgain ==
  /\ pc = "converted"
  /\ res' = Append(res, convertType(res[1], arg[2], arg[3]))
  /\ pc' = "converted again"
  /\ UNCHANGED <<STRICTLY_TYPED, ENABLE_JAVADOC, ARRAY_TYPE, error, glMatrix,
                 signatureDB, methodMap, ki, mi, output, stdout, matched, result, arg>>

Init ==
  /\ STRICTLY_TYPED \in BOOLEAN
  /\ ENABLE_JAVADOC \in BOOLEAN
  /\ ARRAY_TYPE = "Float32Array"
  /\ pc = "props"
  /\ error = ""
  /\ glMatrix = <<>>
  /\ signatureDB = <<>>
  /\ methodMap = <<>>
  /\ ki = 0
  /\ mi = 0
  /\ output = <<>>
  /\ stdout = <<>>
  /\ matched = 0
  /\ result = <<>>
  /\ arg = <<>>
  /\ res = <<>>

Next ==
  \/ glMatrixProps(CommonJs)
  \/ glMatrixMatch
  \/ glMatrixEnd
  \/ Pass1Match
  \/ Pass1End
  \/ Pass2Begin
  \/ Pass2Render
  \/ Pass2End
  \/ consoleLog
  \/ Convert(FromTypes, Enclosing, Methods)
  \/ ConvertAgain

Spec == Init /\ [][Next]_vars

-----------------------------------------------------------------------------
(* Vocabulary of the properties.                                            *)

KlassSet == {klasses[i] : i \in 1..Len(klasses)}

Override == {"set", "length", "forEach"}

StartsWith(s, prefix) == Len(s) >= Len(prefix) /\ SubSeq(s, 1, Len(prefix)) = prefix

EndsWith(s, suffix) ==
  Len(s) >= Len(suffix) /\ SubSeq(s, Len(s) - Len(suffix) + 1, Len(s)) = suffix

Reason == " // not Float32Array compatible"

\* the declarations among text pieces
Decls(pieces) == {pieces[i] : i \in {j \in 1..Len(pieces) : pieces[j].kind = "decl"}}

\* ToString has just returned from a record of pass 2: the record is
\* RenderedEntry (its key is the name it was registered under) and the text
\* is RenderedItem
Rendered == pc = "pass2" /\ mi >= 2
RenderedKlass == signatureDB[ki].key
RenderedEntry == signatureDB[ki].value[mi - 1]
RenderedItem == output[Len(output)]

\* parseKlass has just handed the record of `result` to its callback
Extracted == pc = "pass1" /\ result # <<>>
ExtractedSig == MapGet(methodMap, result[3])
ExtractedGl == pc = "glMatrix" /\ result # <<>>
ExtractedGlItem == glMatrix[Len(glMatrix)]

\* a type the loose mode replaces and the strict mode keeps
Resolved(K) == IF STRICTLY_TYPED THEN K ELSE ARRAY_TYPE

\* the line of a declaration that is not commented out
Live(method, generic, params, paramTypes, returnType) ==
  "  " \o method \o generic \o "("
    \o join([i \in 1..Len(params) |-> params[i] \o ": " \o paramTypes[i]], ", ")
    \o "): " \o returnType \o ";"

\* the types of the @returns tags of a documentation block
ReturnsTypes(javadoc) ==
  {javadoc[i].type : i \in {j \in 1..Len(javadoc) : javadoc[j].tag = "returns"}}

\* the declaration line gives the return type T
ReturnsType(line, T) ==
  \/ EndsWith(line, "): " \o T \o ";")
  \/ EndsWith(line, "): " \o T \o ";" \o Reason)

\* the class names of a registry and the method names of each class, in order
DBKeys(db) ==
  [i \in 1..Len(db) |->
     <<db[i].key, [j \in 1..Len(db[i].value) |-> db[i].value[j].key]>>]

\* the records of a registry that a step from db to db2 leaves as they are
SameRecord(db, db2, i, j) == db2[i].value[j].value = db[i].value[j].value

\* the interface headers among text pieces
Opens(pieces) == {pieces[i] : i \in {j \in 1..Len(pieces) : pieces[j].kind = "open"}}

\* a documentation block without @return and @returns tags
NoReturnTag(javadoc) == \A i \in 1..Len(javadoc) : javadoc[i].tag \notin {"return", "returns"}

\* the type of the first tag of a documentation block without structured
\* values
FirstType(javadoc) == IF Len(javadoc) > 0 THEN javadoc[1].type ELSE undefined

\* the first entry of the parameter list a match is read with is not blank:
\* its own list for a definition, the target's names for a cross-class alias
FirstEntry(match, db) ==
  IF match[4] \in {undefined, ""}
    THEN match[6] # undefined /\ trim(splitComma(trim(match[6]))[1]) # ""
    ELSE /\ DBHas(db, match[4], match[5])
         /\ Len(DBGet(db, match[4], match[5]).params) > 0

\* the number of declarations among text pieces
CountDecls(pieces) == Cardinality({j \in 1..Len(pieces) : pieces[j].kind = "decl"})

\* the keys of a map, in order
Keys(m) == [j \in 1..Len(m) |-> m[j].key]

\* the text pieces pass 2 makes of a registry, by kind and name
RECURSIVE Shape(_)
Shape(db) ==
  IF Len(db) = 0 THEN <<>>
  ELSE <<<<"open", db[1].key>>>>
         \o [j \in 1..Len(db[1].value) |-> <<"decl", db[1].value[j].key>>]
         \o <<<<"close", db[1].key>>>>
         \o Shape(Tail(db))

ShapeOf(pieces) ==
  [i \in 1..Len(pieces) |->
     <<pieces[i].kind,
       IF pieces[i].kind = "decl" THEN pieces[i].method ELSE pieces[i].klass>>]

\* s is the beginning of t
IsPrefix(s, t) == Len(s) <= Len(t) /\ SubSeq(t, 1, Len(s)) = s

\* every record of the registry and of the MethodMap under construction
Records ==
  UNION {{signatureDB[i].value[j].value : j \in 1..Len(signatureDB[i].value)} :
           i \in 1..Len(signatureDB)}
    \cup {methodMap[j].value : j \in 1..Len(methodMap)}

\* the @param and @returns tags of a documentation block, in textual order
Tags(javadoc) == SelectSeq(javadoc, LAMBDA t : t.tag \in {"param", "returns"})

\* the entries of the parameter list a match is read with: its own list for
\* a definition, the names of the target's record for a cross-class alias
Entries(match, db) ==
  IF match[4] \in {undefined, ""}
    THEN splitComma(trim(String(match[6])))
    ELSE DBGet(db, match[4], match[5]).params

\* the members "f: number" of a field list, separated by ", "
RECURSIVE FieldList(_)
FieldList(fields) ==
  IF Len(fields) = 0 THEN ""
  ELSE Head(fields) \o ": number"
         \o (IF Len(fields) > 1 THEN ", " ELSE "") \o FieldList(Tail(fields))

\* a documentation tag that enumerates sub-fields
HasValues(t) == t.values # undefined /\ t.values # ""

FovFields == <<"upDegrees", "downDegrees", "leftDegrees", "rightDegrees">>

\* the position of a method name in a MethodMap
KeyIndex(m, key) == CHOOSE i \in 1..Len(m) : m[i].key = key

\* the position of the definition that ends the chain of same-class aliases
\* starting at position j of the MethodMap m of class K, every alias of the
\* chain standing after its target; 0 when there is no such chain
RECURSIVE ChainRoot(_, _, _)
ChainRoot(m, K, j) ==
  LET r == m[j].value
  IN  IF ~r.isAlias THEN j
      ELSE IF /\ r.targetKlass = K
              /\ MapHas(m, r.targetMethod)
              /\ KeyIndex(m, r.targetMethod) < j
             THEN ChainRoot(m, K, KeyIndex(m, r.targetMethod))
             ELSE 0

\* the number of aliases between position j and the definition of its chain
RECURSIVE ChainLength(_, _)
ChainLength(m, j) ==
  IF ~m[j].value.isAlias THEN 0
  ELSE 1 + ChainLength(m, KeyIndex(m, m[j].value.targetMethod))

\* the non-blank entries of a parameter-list text, trimmed, in order; none
\* when no text was captured
RECURSIVE NonBlank(_)
NonBlank(entries) ==
  IF Len(entries) = 0 THEN <<>>
  ELSE (IF trim(Head(entries)) = "" THEN <<>> ELSE <<trim(Head(entries))>>)
         \o NonBlank(Tail(entries))

Names(paramStr) ==
  IF paramStr = undefined THEN <<>> ELSE NonBlank(splitComma(paramStr))

\* `out` is `lines` with two spaces before every line that is not empty
Indented(lines, out) ==
  /\ Len(out) = Len(lines)
  /\ \A i \in 1..Len(lines) :
       IF lines[i] = "" THEN out[i] = ""
       ELSE /\ Len(out[i]) = Len(lines[i]) + 2
            /\ SubSeq(out[i], 1, 2) = "  "
            /\ SubSeq(out[i], 3, Len(out[i])) = lines[i]

-----------------------------------------------------------------------------
(* C1: a class-family type K resolves to the buffer type in loose mode and  *)
(* to K in strict mode (never the other way round), with the array suffix   *)
(* only for LDU; a definition documented {K}, {K}, {K}, @returns {K} is     *)
(* registered and rendered with these types.                                *)
C1_Strictness ==
  /\ (Len(res) >= 1 /\ arg[1] \in KlassSet) =>
       /\ ~STRICTLY_TYPED => res[1] # arg[1]
       /\ STRICTLY_TYPED => res[1] # ARRAY_TYPE
       /\ arg[3] # "LDU" => res[1] = Resolved(arg[1])
  /\ \A K \in KlassSet :
       (/\ Rendered
        /\ ~RenderedEntry.value.isAlias
        /\ RenderedEntry.key \notin Override \cup {"LDU"}
        /\ RenderedEntry.value.javadoc = <<param(K), param(K), param(K), returns(K)>>
        /\ Len(RenderedEntry.value.params) = 3) =>
          /\ RenderedEntry.value.paramTypes = <<Resolved(K), Resolved(K), Resolved(K)>>
          /\ RenderedEntry.value.returnType = Resolved(K)
          /\ RenderedItem.line =
               Live(RenderedEntry.key, "", RenderedEntry.value.params,
                    <<Resolved(K), Resolved(K), Resolved(K)>>, Resolved(K))

C1_Witness ==
  /\ Rendered
  /\ ~STRICTLY_TYPED
  /\ RenderedKlass = "vec2"
  /\ RenderedItem.line =
       "  add(out: Float32Array, a: Float32Array, b: Float32Array): Float32Array;"

(* C2: in strict mode a declaration named set, length or forEach is rendered *)
(* commented out with the reason, whatever its class and whether or not it  *)
(* is an alias; every other declaration, and every declaration in loose     *)
(* mode, is rendered live.  The name is the one the record was declared     *)
(* under.                                                                   *)
C2_OverrideCompleteness ==
  /\ \A item \in Decls(glMatrix) \cup Decls(output) :
       IF STRICTLY_TYPED /\ item.method \in Override
         THEN /\ StartsWith(item.line, "  // " \o item.method)
              /\ EndsWith(item.line, ";" \o Reason)
         ELSE /\ StartsWith(item.line, "  " \o item.method)
              /\ ~StartsWith(item.line, "  //")
              /\ ~EndsWith(item.line, Reason)
  /\ Rendered => RenderedItem.method = RenderedEntry.key
  /\ (ExtractedGl /\ result[4] = undefined) => ExtractedGlItem.method = result[3]

C2_Witness ==
  /\ Rendered
  /\ STRICTLY_TYPED
  /\ RenderedEntry.value.isAlias
  /\ RenderedKlass = "quat"
  /\ RenderedItem.line = "  // length(a: quat): number; // not Float32Array compatible"

(* C3: in strict mode a same-class alias of an override name is rendered     *)
(* under its own name with the target's parameters and return type, live    *)
(* unless its own name is an override name; extraction registers every      *)
(* declaration under its name, override names included.                     *)
C3_AliasOfOverride ==
  /\ (/\ Rendered
      /\ STRICTLY_TYPED
      /\ RenderedEntry.value.isAlias
      /\ RenderedEntry.value.targetKlass = RenderedKlass
      /\ RenderedEntry.value.targetMethod \in Override) =>
       /\ DBHas(signatureDB, RenderedKlass, RenderedEntry.value.targetMethod)
       /\ LET t == DBGet(signatureDB, RenderedKlass, RenderedEntry.value.targetMethod)
              live == Live(RenderedEntry.key,
                           IF \E i \in 1..Len(t.paramTypes) : t.paramTypes[i] = "T"
                             THEN "<T>" ELSE "",
                           t.params, t.paramTypes, t.returnType)
          IN  IF RenderedEntry.key \in Override
                THEN RenderedItem.line =
                       "  // " \o SubSeq(live, 3, Len(live)) \o Reason
                ELSE RenderedItem.line = live
  /\ Extracted =>
       /\ MapHas(methodMap, result[3])
       /\ ExtractedSig.method = result[3]

C3_Witness ==
  /\ Rendered
  /\ STRICTLY_TYPED
  /\ RenderedKlass = "vec4"
  /\ RenderedEntry.value.targetMethod = "length"
  /\ RenderedItem.line = "  len(a: vec4): number;"

(* C4: once pass 2 has finished, a same-class alias record has the           *)
(* parameters, parameter types and return type of the record stored under   *)
(* its target method.                                                       *)
C4_AliasTransparency ==
  pc \in {"print", "done"} =>
    \A i \in 1..Len(signatureDB) :
      \A j \in 1..Len(signatureDB[i].value) :
        LET r == signatureDB[i].value[j].value
            m == signatureDB[i].value
        IN  (r.isAlias /\ r.targetKlass = signatureDB[i].key) =>
              /\ MapHas(m, r.targetMethod)
              /\ r.params = MapGet(m, r.targetMethod).params
              /\ r.paramTypes = MapGet(m, r.targetMethod).paramTypes
              /\ r.returnType = MapGet(m, r.targetMethod).returnType

(* C5: a cross-class alias is rendered under its own name with the           *)
(* parameter names, parameter types and return type of its target's record. *)
C5_CrossAliasShape ==
  (/\ Rendered
   /\ RenderedEntry.value.isAlias
   /\ RenderedEntry.value.targetKlass # RenderedKlass) =>
    /\ RenderedItem.method = RenderedEntry.key
    /\ DBHas(signatureDB, RenderedEntry.value.targetKlass, RenderedEntry.value.targetMethod)
    /\ LET t == DBGet(signatureDB, RenderedEntry.value.targetKlass,
                      RenderedEntry.value.targetMethod)
       IN  /\ RenderedEntry.value.params = t.params
           /\ RenderedEntry.value.paramTypes = t.paramTypes
           /\ RenderedEntry.value.returnType = t.returnType

(* C6: a rendered declaration carries <T> directly after its name exactly    *)
(* when one of its parameter types or its return type is T.                 *)
C6_GenericFlagging ==
  Rendered =>
    LET r == RenderedEntry.value
        name == RenderedItem.method
        marked == \/ StartsWith(RenderedItem.line, "  " \o name \o "<T>(")
                  \/ StartsWith(RenderedItem.line, "  // " \o name \o "<T>(")
    IN  marked <=> (\/ \E i \in 1..Len(r.paramTypes) : r.paramTypes[i] = "T"
                    \/ r.returnType = "T")

(* C7: resolving the result of a resolution again returns it unchanged when  *)
(* that result is a primitive or a class type (no Array source, no LDU).    *)
C7_Idempotence ==
  (/\ pc = "converted again"
   /\ arg[1] # "Array"
   /\ arg[3] # "LDU"
   /\ res[1] \in {"number", "string", "boolean", "void"} \cup KlassSet) =>
    res[2] = res[1]

(* C8 as claimed: quat4 resolves to quat in both modes.                      *)
C8_Quat4Always ==
  (Len(res) >= 1 /\ arg[1] = "quat4" /\ arg[3] # "LDU") => res[1] = "quat"

(* C8: quat4 resolves as the quaternion type does: to quat in strict mode    *)
(* and to the buffer type in loose mode, for every class and every method   *)
(* but LDU.                                                                 *)
C8_Quat4 ==
  (Len(res) >= 1 /\ arg[1] = "quat4" /\ arg[3] # "LDU") =>
    res[1] = IF STRICTLY_TYPED THEN "quat" ELSE ARRAY_TYPE

C8_Witness ==
  /\ pc = "converted"
  /\ ~STRICTLY_TYPED
  /\ arg = <<"quat4", "mat4", "add">>
  /\ res = <<"Float32Array">>

(* C9: a definition whose parameter has no harvested type, or a type outside *)
(* the vocabulary, never ends the run; the parameter's type is void.        *)
C9_SilentFallback ==
  (result # <<>> /\ ~isAliasOf(result)) =>
    /\ pc # "crashed"
    /\ Extracted =>
         LET arr == splitComma(trim(String(result[6])))
             idx == kept(arr)
             docs == harvest(result[2])
         IN  \A j \in 1..Len(idx) :
               (\/ at(docs, idx[j]) = undefined
                \/ /\ ~InList(validTypes, at(docs, idx[j]))
                   /\ ~StartsWith(at(docs, idx[j]), "{")) =>
                 ExtractedSig.paramTypes[j] = "void"

(* C10 as claimed: without @returns tag and return marker, the return type   *)
(* of a definition is void in every module.                                 *)
C10_DefaultVoid ==
  /\ (/\ Extracted
      /\ ~isAliasOf(result)
      /\ firstReturns(result[2]) = <<>>
      /\ result[7] = undefined) => ExtractedSig.returnType = "void"
  /\ (/\ ExtractedGl
      /\ ~isAliasOf(result)
      /\ firstReturns(result[2]) = <<>>
      /\ result[7] = undefined) => EndsWith(ExtractedGlItem.line, "): void;")

(* C10: without @returns tag and return marker, the return type of a         *)
(* definition is the resolution of its own class: void in the glMatrix      *)
(* module; in a class-family module K, K in strict mode and the buffer type *)
(* in loose mode, with the array suffix for LDU.                            *)
C10_DefaultReturn ==
  /\ (/\ Extracted
      /\ ~isAliasOf(result)
      /\ firstReturns(result[2]) = <<>>
      /\ result[7] = undefined) =>
       ExtractedSig.returnType =
         Resolved(klasses[ki]) \o (IF result[3] = "LDU" THEN "[]" ELSE "")
  /\ (/\ ExtractedGl
      /\ ~isAliasOf(result)
      /\ firstReturns(result[2]) = <<>>
      /\ result[7] = undefined) => EndsWith(ExtractedGlItem.line, "): void;")

C10_Witness ==
  /\ Extracted
  /\ STRICTLY_TYPED
  /\ klasses[ki] = "vec3"
  /\ result[3] = "normalize"
  /\ result[7] = undefined
  /\ ExtractedSig.returnType = "vec3"

(* C11 as claimed: every rendered declaration whose documentation has an     *)
(* @returns {X} tag, same-class aliases included, is rendered with the      *)
(* return type convertType(X, klass, method).                               *)
C11_ReturnsAlways ==
  Rendered =>
    \A X \in ReturnsTypes(RenderedEntry.value.javadoc) :
      ReturnsType(RenderedItem.line, convertType(X, RenderedKlass, RenderedEntry.key))

(* C11: a rendered definition or cross-class alias whose documentation has   *)
(* an @returns {X} tag has the return type convertType(X, klass, method),   *)
(* whatever its first parameter and its return marker; a same-class alias   *)
(* is rendered with the return type of its target's record, whatever its    *)
(* own tags.                                                                *)
C11_Returns ==
  Rendered =>
    LET r == RenderedEntry.value
    IN  IF r.isAlias /\ r.targetKlass = RenderedKlass
          THEN /\ DBHas(signatureDB, RenderedKlass, r.targetMethod)
               /\ ReturnsType(RenderedItem.line,
                              DBGet(signatureDB, RenderedKlass, r.targetMethod).returnType)
          ELSE \A X \in ReturnsTypes(r.javadoc) :
                 /\ r.returnType = convertType(X, RenderedKlass, RenderedEntry.key)
                 /\ ReturnsType(RenderedItem.line,
                                convertType(X, RenderedKlass, RenderedEntry.key))

C11_Witness ==
  /\ Rendered
  /\ ~STRICTLY_TYPED
  /\ RenderedKlass = "vec4"
  /\ ~RenderedEntry.value.isAlias
  /\ RenderedEntry.value.javadoc = <<param("vec4"), returns("Number")>>
  /\ RenderedItem.line = "  length(a: Float32Array): number;"

(* C12: nothing is rendered from the registry before every class of the      *)
(* class list has been stored in signatureDB, in the order of the list;     *)
(* every step that renders is a step of pass 2; once pass 2 has begun no    *)
(* class and no method is added to or removed from the registry, and the    *)
(* only record a step of pass 2 writes to is the same-class alias it        *)
(* renders.                                                                 *)
C12_PassOrdering ==
  /\ [](output # <<>> =>
          /\ pc \notin {"props", "glMatrix", "pass1"}
          /\ methodMap = <<>>
          /\ [i \in 1..Len(signatureDB) |-> signatureDB[i].key] = klasses)
  /\ [][output' # output => pc = "pass2"]_vars
  /\ [][pc = "pass2" =>
          /\ DBKeys(signatureDB') = DBKeys(signatureDB)
          /\ \A i \in 1..Len(signatureDB) :
               \A j \in 1..Len(signatureDB[i].value) :
                 \/ SameRecord(signatureDB, signatureDB', i, j)
                 \/ /\ i = ki /\ j = mi
                    /\ selfAlias(signatureDB[i].value[j].value)
                    /\ output' # output]_vars

C12_Witness ==
  /\ Rendered
  /\ RenderedEntry.value.isAlias
  /\ RenderedEntry.value.targetKlass = RenderedKlass
  /\ RenderedEntry.key = "len"
  /\ RenderedEntry.value.params = <<"a">>
  /\ Len(signatureDB) = Len(klasses)

(* C13: a step that renders a same-class alias whose target method is not    *)
(* in its class's MethodMap, or extracts a cross-class alias whose target   *)
(* class or method is not in the registry, ends the run with a TypeError:   *)
(* nothing is stored or rendered for the alias, the run takes no further    *)
(* step and nothing is ever written to standard output.                     *)
C13_UnresolvableAliasFatal ==
  /\ [][(/\ pc = "pass2"
         /\ mi \in 1..Len(signatureDB[ki].value)
         /\ signatureDB[ki].value[mi].value.isAlias
         /\ signatureDB[ki].value[mi].value.targetKlass = signatureDB[ki].key
         /\ ~MapHas(signatureDB[ki].value,
                    signatureDB[ki].value[mi].value.targetMethod)) =>
           /\ pc' = "crashed"
           /\ error' = NoTarget
           /\ UNCHANGED <<output, signatureDB, stdout>>]_vars
  /\ [][(/\ pc = "pass1"
         /\ result' # <<>>
         /\ result'[4] \notin {undefined, "", klasses[ki]}
         /\ \/ ~MapHas(signatureDB, result'[4])
            \/ ~MapHas(MapGet(signatureDB, result'[4]), result'[5])) =>
           /\ pc' = "crashed"
           /\ error' = NoTarget
           /\ UNCHANGED <<methodMap, signatureDB, output, stdout>>]_vars
  /\ [][pc # "crashed"]_vars
  /\ [](pc = "crashed" => stdout = <<>>)

C13_Witness ==
  /\ pc = "crashed"
  /\ error = NoTarget
  /\ output # <<>>
  /\ signatureDB[ki].key = "vec4"
  /\ signatureDB[ki].value[mi].key = "len"
  /\ ~MapHas(signatureDB[ki].value, "length")
  /\ Decls(output) = {}
  /\ stdout = <<>>

(* C15: the source type Array resolves to an array of the enclosing class's  *)
(* resolved type: for a class-family class C and any method,                *)
(* convertType("Array", C, m) is C[] in strict mode and the buffer type     *)
(* followed by [] in loose mode; a parameter documented {Array} is          *)
(* registered with that type.                                               *)
C15_ArrayOfClass ==
  /\ (Len(res) >= 1 /\ arg[1] = "Array" /\ arg[2] \in KlassSet) =>
       res[1] = (IF STRICTLY_TYPED THEN arg[2] ELSE ARRAY_TYPE) \o "[]"
  /\ (Extracted /\ ~isAliasOf(result)) =>
       LET idx == kept(splitComma(trim(String(result[6]))))
           docs == harvest(result[2])
       IN  \A j \in 1..Len(idx) :
             at(docs, idx[j]) = "Array" =>
               ExtractedSig.paramTypes[j] =
                 (IF STRICTLY_TYPED THEN klasses[ki] ELSE ARRAY_TYPE) \o "[]"

C15_Witness ==
  /\ pc = "converted"
  /\ ~STRICTLY_TYPED
  /\ arg = <<"Array", "mat2", undefined>>
  /\ res = <<"Float32Array[]">>

(* C16: in strict mode the interface of every class of the class list is     *)
(* declared as extending the buffer type, and the glMatrix interface        *)
(* extends nothing; in loose mode no interface has an extends clause.  A    *)
(* run that completes writes one such header for each class of the list.    *)
C16_InterfaceExtends ==
  /\ \A item \in Opens(glMatrix) \cup Opens(output) \cup Opens(stdout) :
       item.extends =
         IF STRICTLY_TYPED /\ item.klass \in KlassSet THEN ARRAY_TYPE ELSE ""
  /\ \A item \in Opens(output) : item.klass \in KlassSet
  /\ pc = "done" => \A K \in KlassSet : \E item \in Opens(stdout) : item.klass = K

C16_Witness ==
  /\ pc = "done"
  /\ STRICTLY_TYPED
  /\ [kind |-> "open", klass |-> "mat3", extends |-> "Float32Array"] \in Opens(stdout)
  /\ [kind |-> "open", klass |-> "glMatrix", extends |-> ""] \in Opens(stdout)

(* C17: a definition or cross-class alias without @return(s) tag whose first *)
(* parameter-list entry is not blank has the return type                    *)
(* convertType(first harvested type, klass, method) when its match has the  *)
(* return marker, and the default convertType(klass, klass, method) when it *)
(* has none; the types documented for the other parameters play no part.    *)
C17_FirstParameterReturn ==
  /\ (/\ Extracted
      /\ ~(isAliasOf(result) /\ result[4] = klasses[ki])
      /\ NoReturnTag(result[2])
      /\ FirstEntry(result, signatureDB)) =>
       ExtractedSig.returnType =
         IF result[7] # undefined
           THEN convertType(FirstType(result[2]), klasses[ki], result[3])
           ELSE convertType(klasses[ki], klasses[ki], result[3])
  /\ (/\ ExtractedGl
      /\ NoReturnTag(result[2])
      /\ FirstEntry(result, signatureDB)) =>
       ReturnsType(ExtractedGlItem.line,
                   IF result[7] # undefined
                     THEN convertType(FirstType(result[2]), "glMatrix", result[3])
                     ELSE "void")

C17_Witness ==
  /\ Extracted
  /\ STRICTLY_TYPED
  /\ klasses[ki] = "vec2"
  /\ result = Def(<<param("Number"), param("vec2")>>, "fromAngle", "rad, out", "return")
  /\ ExtractedSig.paramTypes = <<"number", "vec2">>
  /\ ExtractedSig.returnType = "number"

(* C18 as claimed: a run that completes has emitted, for the classes of the  *)
(* registry, as many declarations as pass 1 has extracted.                  *)
C18_OnePerExtraction ==
  pc = "done" => CountDecls(output) = matched - CountDecls(glMatrix)

(* C18: every extracted signature is stored in its class's MethodMap under   *)
(* its method name: a new name is added after the others, a name the map    *)
(* already has keeps its place and gets the new record, and no other record *)
(* is touched; the MethodMap is stored whole under its class; when pass 2   *)
(* has finished, every record of the registry has been rendered exactly     *)
(* once, in the order of the registry, so a class has as many declarations  *)
(* as distinct method names were extracted from it.                         *)
C18_Lifecycle ==
  /\ [][(pc = "pass1" /\ pc' = "pass1" /\ matched' = matched + 1) =>
          /\ Keys(methodMap') =
               IF MapHas(methodMap, result'[3])
                 THEN Keys(methodMap) ELSE Append(Keys(methodMap), result'[3])
          /\ \A j \in 1..Len(methodMap) :
               methodMap[j].key # result'[3] => methodMap'[j] = methodMap[j]
          /\ \A j \in 1..Len(methodMap') :
               methodMap'[j].key = result'[3] =>
                 /\ methodMap'[j].value.javadoc = result'[2]
                 /\ methodMap'[j].value.targetMethod = result'[5]]_vars
  /\ [][(pc = "pass1" /\ signatureDB' # signatureDB) =>
          signatureDB' = Append(signatureDB, [key |-> klasses[ki], value |-> methodMap])]_vars
  /\ [](pc \in {"print", "done"} => ShapeOf(output) = Shape(signatureDB))

C18_Witness ==
  /\ pc = "done"
  /\ matched = 3
  /\ CountDecls(glMatrix) = 0
  /\ CountDecls(stdout) = 2
  /\ Keys(MapGet(signatureDB, "mat4")) = <<"transpose">>
  /\ Keys(MapGet(signatureDB, "vec2")) = <<"add">>

(* C19: for the method LDU every resolution gives the type the same source  *)
(* type and class give for another method, followed by one [] unless the    *)
(* source type is Array, which has it already; no result of convertType     *)
(* ends in [][].  The record of a definition LDU has a return type ending   *)
(* in one [], and a parameter type ending in [] only for a parameter        *)
(* documented {Array}.                                                      *)
C19_LDU ==
  /\ \A i \in 1..Len(res) : ~EndsWith(res[i], "[][]")
  /\ (Len(res) >= 1 /\ arg[3] = "LDU") =>
       /\ EndsWith(res[1], "[]")
       /\ res[1] = convertType(arg[1], arg[2], undefined)
                     \o (IF arg[1] = "Array" THEN "" ELSE "[]")
  /\ (Len(res) >= 1 /\ arg[3] # "LDU" /\ arg[1] # "Array") => ~EndsWith(res[1], "[]")
  /\ (Extracted /\ result[3] = "LDU" /\ ~isAliasOf(result)) =>
       /\ EndsWith(ExtractedSig.returnType, "[]")
       /\ ~EndsWith(ExtractedSig.returnType, "[][]")
       /\ LET idx == kept(splitComma(trim(String(result[6]))))
              docs == harvest(result[2])
          IN  \A j \in 1..Len(idx) :
                EndsWith(ExtractedSig.paramTypes[j], "[]") <=> at(docs, idx[j]) = "Array"

C19_Witness ==
  /\ pc = "converted"
  /\ STRICTLY_TYPED
  /\ arg = <<"Array", "mat2", "LDU">>
  /\ res = <<"mat2[]">>

(* C20: for every enclosing class and every method but LDU, Number and       *)
(* number resolve to number, String to string, Boolean to boolean, Object   *)
(* and Type to T, and Function to (a: K, b: K, arg: T) => void, where K is  *)
(* the enclosing class in strict mode and the buffer type in loose mode for *)
(* a class of the class list (glMatrix stays glMatrix); only K depends on   *)
(* the mode.                                                                *)
C20_KeywordTable ==
  (Len(res) >= 1 /\ arg[3] # "LDU") =>
    LET K == IF arg[2] \in KlassSet /\ ~STRICTLY_TYPED THEN ARRAY_TYPE ELSE arg[2]
    IN  /\ arg[1] \in {"Number", "number"} => res[1] = "number"
        /\ arg[1] = "String" => res[1] = "string"
        /\ arg[1] = "Boolean" => res[1] = "boolean"
        /\ arg[1] \in {"Object", "Type"} => res[1] = "T"
        /\ arg[1] = "Function" =>
             res[1] = "(a: " \o K \o ", b: " \o K \o ", arg: T) => void"

C20_Witness ==
  /\ pc = "converted"
  /\ ~STRICTLY_TYPED
  /\ arg = <<"Function", "vec3", undefined>>
  /\ res = <<"(a: Float32Array, b: Float32Array, arg: T) => void">>

(* C21: a step of pass 2 leaves every record of the registry as it is but    *)
(* the one it renders; rendering a definition or a cross-class alias leaves *)
(* the whole registry as it is; rendering a same-class alias leaves the     *)
(* record of its target as it is.                                           *)
C21_RegistryFrame ==
  [][pc = "pass2" =>
       /\ \A i \in 1..Len(signatureDB) :
            \A j \in 1..Len(signatureDB[i].value) :
              (i # ki \/ j # mi) => SameRecord(signatureDB, signatureDB', i, j)
       /\ (mi \in 1..Len(signatureDB[ki].value)) =>
            LET r == signatureDB[ki].value[mi].value
            IN  IF r.isAlias /\ r.targetKlass = signatureDB[ki].key
                  THEN \A j \in 1..Len(signatureDB[ki].value) :
                         (signatureDB[ki].value[j].key = r.targetMethod /\ j # mi) =>
                           SameRecord(signatureDB, signatureDB', ki, j)
                  ELSE signatureDB' = signatureDB]_vars

C21_Witness ==
  /\ Rendered
  /\ RenderedKlass = "vec4"
  /\ RenderedEntry.key = "mag"
  /\ RenderedEntry.value.method = "length"
  /\ RenderedEntry.value.params = <<"a">>
  /\ MapHas(signatureDB[ki].value, "len")
  /\ MapGet(signatureDB[ki].value, "len").params = <<"a">>

(* C22: while a class is extracted, the method names of its MethodMap keep   *)
(* their order and a new name comes last (order of first occurrence); what  *)
(* pass 2 has emitted is at every moment the beginning of the registry read *)
(* class by class in the order vec2, vec3, vec4, mat2, mat2d, mat3, mat4,   *)
(* quat and, in a class, name by name in the order of its MethodMap; no     *)
(* step of pass 2 changes that order; standard output has the glMatrix      *)
(* interface followed by these pieces.                                      *)
C22_EmissionOrder ==
  /\ [][(pc = "pass1" /\ pc' = "pass1" /\ ki' = ki) =>
          IsPrefix(Keys(methodMap), Keys(methodMap'))]_vars
  /\ [][pc = "pass2" => DBKeys(signatureDB') = DBKeys(signatureDB)]_vars
  /\ [](output # <<>> =>
          /\ Keys(signatureDB) =
               <<"vec2", "vec3", "vec4", "mat2", "mat2d", "mat3", "mat4", "quat">>
          /\ IsPrefix(ShapeOf(output), Shape(signatureDB)))
  /\ [](pc = "done" =>
          /\ IsPrefix(glMatrix, stdout)
          /\ ShapeOf(SubSeq(stdout, Len(glMatrix) + 1, Len(stdout))) = Shape(signatureDB))

C22_Witness ==
  /\ pc = "done"
  /\ matched = 3
  /\ CountDecls(glMatrix) = 0
  /\ Keys(MapGet(signatureDB, "vec4")) = <<"len", "length">>
  /\ \E i \in 1..(Len(output) - 2) :
       /\ ShapeOf(output)[i] = <<"decl", "len">>
       /\ ShapeOf(output)[i + 1] = <<"decl", "length">>
       /\ ShapeOf(output)[i + 2] = <<"close", "vec4">>
  /\ stdout = glMatrix \o output
  /\ \A K \in KlassSet \ {"vec4"} : MapGet(signatureDB, K) = <<>>

(* C23: every record, in the MethodMap under construction and in the         *)
(* registry, before and after the rewrites of pass 2, has as many parameter *)
(* types as parameter names; every rendered line pairs each name with its   *)
(* type.                                                                    *)
C23_ParamsAndTypes ==
  /\ \A r \in Records : Len(r.params) = Len(r.paramTypes)
  /\ Rendered =>
       LET r == RenderedEntry.value
       IN  /\ Len(r.params) = Len(r.paramTypes)
           /\ Contains(RenderedItem.line,
                       "(" \o join([i \in 1..Len(r.params) |->
                                      r.params[i] \o ": " \o r.paramTypes[i]], ", ")
                           \o "): ")
           /\ ~Contains(RenderedItem.line, ": undefined")

C23_Witness ==
  /\ Rendered
  /\ ~STRICTLY_TYPED
  /\ RenderedEntry.key = "forEach"
  /\ RenderedEntry.value.params = <<"a", "fn", "arg">>
  /\ RenderedEntry.value.paramTypes =
       <<"Float32Array[]", "(a: Float32Array, b: Float32Array, arg: T) => void", "T">>

(* C24: the non-blank entry at position i of the parameter list of a         *)
(* definition or cross-class alias is typed by the i-th tag among the       *)
(* @param and @returns tags of its documentation block, in textual order,   *)
(* whatever the number of tags: with more parameters than @param tags the   *)
(* type of a following @returns tag types a parameter.  Extraction ends     *)
(* with the TypeError of a missing type only at an entry without i-th tag.  *)
C24_PositionalTypes ==
  /\ (Extracted /\ ~(isAliasOf(result) /\ result[4] = klasses[ki])) =>
       LET arr == Entries(result, signatureDB)
           idx == kept(arr)
           tags == Tags(result[2])
       IN  /\ Len(ExtractedSig.paramTypes) = Len(idx)
           /\ \A j \in 1..Len(idx) :
                /\ idx[j] <= Len(tags)
                /\ tags[idx[j]].values = undefined =>
                     ExtractedSig.paramTypes[j] =
                       convertType(tags[idx[j]].type, klasses[ki], undefined)
  /\ (pc = "crashed" /\ error = NoFromType /\ result # <<>>) =>
       \E i \in 1..Len(Entries(result, signatureDB)) :
         /\ trim(Entries(result, signatureDB)[i]) # ""
         /\ i > Len(Tags(result[2]))

C24_Witness ==
  /\ Extracted
  /\ STRICTLY_TYPED
  /\ klasses[ki] = "vec3"
  /\ result[3] = "set"
  /\ Tags(result[2]) = <<param("vec3"), param("Number"), returns("vec3")>>
  /\ ExtractedSig.params = <<"out", "x", "y">>
  /\ ExtractedSig.paramTypes = <<"vec3", "number", "vec3">>

-----------------------------------------------------------------------------
(* C25: a documentation tag that enumerates sub-fields f1, ..., fn is       *)
(* harvested as the type "{f1: number, ..., fn: number}", the fields in the *)
(* order listed, and convertType returns a type delimited by "{" and "}"    *)
(* unchanged in strict and in loose mode, for methods other than LDU.       *)
C25_StructuralTypes ==
  /\ Extracted =>
       LET tags == Tags(result[2])
       IN  \A j \in 1..Len(tags) :
             HasValues(tags[j]) =>
               harvest(result[2])[j] = "{" \o FieldList(splitAttrs(tags[j].values)) \o "}"
  /\ (Extracted /\ ~(isAliasOf(result) /\ result[4] = klasses[ki])) =>
       LET idx == kept(Entries(result, signatureDB))
           tags == Tags(result[2])
       IN  \A j \in 1..Len(idx) :
             (idx[j] <= Len(tags) /\ HasValues(tags[idx[j]])) =>
               ExtractedSig.paramTypes[j] =
                 "{" \o FieldList(splitAttrs(tags[idx[j]].values)) \o "}"
  /\ (Len(res) >= 1 /\ arg[3] # "LDU" /\ arg[1] # undefined /\ Len(arg[1]) >= 2
        /\ StartsWith(arg[1], "{") /\ EndsWith(arg[1], "}")) =>
       res[1] = arg[1]

C25_Witness ==
  /\ Extracted
  /\ ~STRICTLY_TYPED
  /\ klasses[ki] = "mat4"
  /\ result[3] = "perspectiveFromFieldOfView"
  /\ splitAttrs(Tags(result[2])[2].values) = FovFields
  /\ ExtractedSig.params = <<"out", "fov", "near", "far">>
  /\ ExtractedSig.paramTypes[2]
       = "{upDegrees: number, downDegrees: number, leftDegrees: number, rightDegrees: number}"

\* convertType has returned a structural type in loose mode
C25_WitnessConvert ==
  /\ ~STRICTLY_TYPED
  /\ Len(res) >= 1
  /\ arg = <<"{x: number, y: number}", "vec2", undefined>>
  /\ res[1] = "{x: number, y: number}"

-----------------------------------------------------------------------------
(* C26: in a chain of same-class aliases that ends in a definition, each    *)
(* alias declared after its target, every alias is rendered under its own   *)
(* name with the parameter names, parameter types and return type of the    *)
(* definition.                                                              *)
C26_TransitiveAliases ==
  (/\ Rendered
   /\ RenderedEntry.value.isAlias
   /\ RenderedEntry.value.targetKlass = RenderedKlass
   /\ ChainRoot(signatureDB[ki].value, RenderedKlass, mi - 1) # 0) =>
    LET a == signatureDB[ki].value[ChainRoot(signatureDB[ki].value, RenderedKlass, mi - 1)].value
        live == Live(RenderedEntry.key,
                     IF \E i \in 1..Len(a.paramTypes) : a.paramTypes[i] = "T"
                       THEN "<T>" ELSE "",
                     a.params, a.paramTypes, a.returnType)
    IN  /\ RenderedItem.method = RenderedEntry.key
        /\ RenderedItem.line \in {live, "  // " \o SubSeq(live, 3, Len(live)) \o Reason}
        /\ RenderedEntry.value.params = a.params
        /\ RenderedEntry.value.paramTypes = a.paramTypes
        /\ RenderedEntry.value.returnType = a.returnType

C26_Witness ==
  /\ Rendered
  /\ ~STRICTLY_TYPED
  /\ RenderedKlass = "vec4"
  /\ Keys(signatureDB[ki].value) = <<"length", "len", "mag">>
  /\ RenderedEntry.key = "mag"
  /\ RenderedEntry.value.targetMethod = "len"
  /\ ChainLength(signatureDB[ki].value, mi - 1) = 2
  /\ RenderedItem.line = "  mag(a: Float32Array): number;"

-----------------------------------------------------------------------------
(* C27: the parameter names of a signature that is not an alias are the     *)
(* non-blank entries of the comma-split parameter-list text of the match,   *)
(* trimmed and in order; a match without a parameter list, or with an empty *)
(* one, gives an empty parameter list.                                      *)
C27_ParameterNames ==
  (Extracted /\ ~isAliasOf(result)) =>
    ExtractedSig.params = Names(result[6])

\* a definition whose match captured no parameter list has been extracted
C27_NoListExtracted ==
  /\ Extracted
  /\ ~isAliasOf(result)
  /\ result[6] = undefined
  /\ ExtractedSig.params = <<"undefined">>

\* the claim on the matches that captured a parameter list
C27_CapturedNames ==
  (Extracted /\ ~isAliasOf(result) /\ result[6] # undefined) =>
    ExtractedSig.params = Names(result[6])

-----------------------------------------------------------------------------
(* C28: standard output is empty until the run is done and then holds the   *)
(* whole document, every class opened, filled and closed; a run that ends   *)
(* early has written nothing of it.                                         *)
C28_AllOrNothing ==
  /\ pc # "done" => stdout = <<>>
  /\ pc = "done" =>
       /\ stdout = glMatrix \o output
       /\ Keys(signatureDB) = klasses
       /\ ShapeOf(output) = Shape(signatureDB)

C28_Witness ==
  /\ pc = "crashed"
  /\ error = NoTarget
  /\ glMatrix # <<>>
  /\ Decls(output) # {}
  /\ stdout = <<>>

-----------------------------------------------------------------------------
(* C29: with documentation enabled a same-class alias is rendered with the  *)
(* documentation block of its target record, a definition or a cross-class  *)
(* alias with its own block, every non-empty line indented by two spaces;   *)
(* with documentation disabled a declaration carries no documentation text. *)
C29_DocumentationBlock ==
  Rendered =>
    LET e == RenderedEntry.value
        block == IF e.isAlias /\ e.targetKlass = RenderedKlass
                   THEN MapGet(signatureDB[ki].value, e.targetMethod).javadoc
                   ELSE e.javadoc
    IN  IF ENABLE_JAVADOC
          THEN Indented(docLines(block), RenderedItem.javadoc)
          ELSE RenderedItem.javadoc = <<>>

C29_Witness ==
  /\ Rendered
  /\ ENABLE_JAVADOC
  /\ RenderedKlass = "vec4"
  /\ RenderedEntry.key = "mag"
  /\ RenderedEntry.value.javadoc = <<returns("vec4")>>
  /\ RenderedEntry.value.targetMethod = "len"
  /\ MapGet(signatureDB[ki].value, "len").javadoc = <<emptyLine>>
  /\ RenderedItem.javadoc = <<"  /**", "", "   */">>

\* a same-class alias of a definition carries the definition's block
C29_WitnessDefinition ==
  /\ Rendered
  /\ ENABLE_JAVADOC
  /\ RenderedKlass = "vec4"
  /\ RenderedEntry.key = "len"
  /\ RenderedItem.javadoc
       = <<"  /**", "   * @param {vec4}", "   * @returns {Number}", "   */">>

\* with documentation disabled the same alias carries no text
C29_WitnessDisabled ==
  /\ Rendered
  /\ ~ENABLE_JAVADOC
  /\ RenderedKlass = "vec4"
  /\ RenderedEntry.key = "len"
  /\ RenderedItem.javadoc = <<>>

-----------------------------------------------------------------------------
(* C30: once pass 2 has finished, the parameter names of a cross-class      *)
(* alias are those of the record rendered for its target method, in number  *)
(* and order, also when the target is a same-class alias of its own class.  *)
C30_CrossAliasParams ==
  pc \in {"print", "done"} =>
    \A i \in 1..Len(signatureDB) :
      \A j \in 1..Len(signatureDB[i].value) :
        LET r == signatureDB[i].value[j].value
        IN  (r.isAlias /\ r.targetKlass # signatureDB[i].key) =>
              /\ DBHas(signatureDB, r.targetKlass, r.targetMethod)
              /\ r.params = DBGet(signatureDB, r.targetKlass, r.targetMethod).params

\* quat.mag = vec4.len has been printed without the parameter of vec4.len
C30_AliasOfAlias ==
  /\ pc = "done"
  /\ DBHas(signatureDB, "quat", "mag")
  /\ DBGet(signatureDB, "quat", "mag").params = <<>>
  /\ DBGet(signatureDB, "vec4", "len").params = <<"a">>
  /\ \E d, e \in Decls(output) :
       /\ d.line = "  len(a: Float32Array): number;"
       /\ e.line = "  mag(): number;"

\* the claim on the targets that are not same-class aliases
C30_DirectTargets ==
  pc \in {"print", "done"} =>
    \A i \in 1..Len(signatureDB) :
      \A j \in 1..Len(signatureDB[i].value) :
        LET r == signatureDB[i].value[j].value
        IN  (/\ r.isAlias /\ r.targetKlass # signatureDB[i].key
             /\ DBHas(signatureDB, r.targetKlass, r.targetMethod)
             /\ ~selfAlias(DBGet(signatureDB, r.targetKlass, r.targetMethod))) =>
              r.params = DBGet(signatureDB, r.targetKlass, r.targetMethod).params

====
